---------------------------- MODULE Spec2Model ----------------------------
(***************************************************************************)
(* Checkpoint-based incremental backup (nas-backup-utils).                 *)
(*                                                                         *)
(*   src/backup_utils.rs  FileInfo (change record), dealing_with_file,     *)
(*                        traverse_backup (tree diff walk)                 *)
(*   src/zip_handler.rs   compress_process / extract_zip (fold / unfold)   *)
(*   src/main.rs          backup (checkpoint chain driver)                 *)
(*                                                                         *)
(* Text is a sequence of lines, a line a sequence of one-character         *)
(* strings.  A file is a record [zip, text, members]: a plain file has     *)
(* text, an archive has members (member name -> file).  A file name is a   *)
(* pair <<stem, extension>>, a path a sequence of names.                   *)
(***************************************************************************)
EXTENDS Integers, Sequences, FiniteSets, TLC

VARIABLES
    src,      \* the source tree under SRC_DIR: [dirs, files]
    bak,      \* the tree under BACKUP_DIR: checkpoints, pointer file, staging copy
    clock,    \* wall clock, in seconds
    pc,       \* position of the driver (backup) in its body
    run,      \* the locals of the running backup()
    todo,     \* traverse_backup's call stack: one frame of unread entries per directory
    faults,   \* I/O failures delivered so far
    hist,     \* history: what past runs did (not read by the program)
    rt,       \* change-record round trip (SpecRecord)
    fd        \* one directory under unfold / fold (SpecFold)

vars == <<src, bak, clock, pc, run, todo, faults, hist, rt, fd>>

-----------------------------------------------------------------------------
(* Decimal and hexadecimal text                                            *)

DigitChar == <<"0", "1", "2", "3", "4", "5", "6", "7", "8", "9">>

HexChar == <<"0", "1", "2", "3", "4", "5", "6", "7", "8", "9",
             "a", "b", "c", "d", "e", "f">>

\* the digit a character stands for, -1 when it is no decimal digit
DigitVal(c) ==
    IF \E i \in 1..10 : DigitChar[i] = c
    THEN (CHOOSE i \in 1..10 : DigitChar[i] = c) - 1
    ELSE -1

RECURSIVE NatToDecimal(_)
\* Display for an unsigned integer: no sign, no leading zero
NatToDecimal(n) ==
    IF n < 10 THEN <<DigitChar[n + 1]>>
    ELSE Append(NatToDecimal(n \div 10), DigitChar[(n % 10) + 1])

\* Display for a signed integer: "-" before the magnitude of a negative one
IntToDecimal(n) ==
    IF n < 0 THEN <<"-">> \o NatToDecimal(0 - n) ELSE NatToDecimal(n)

RECURSIVE DigitsValue(_)
DigitsValue(s) ==
    IF s = <<>> THEN 0
    ELSE DigitsValue(SubSeq(s, 1, Len(s) - 1)) * 10 + DigitVal(s[Len(s)])

AllDigits(s) == s # <<>> /\ \A i \in 1..Len(s) : DigitVal(s[i]) >= 0

ParseError == [ok |-> FALSE, val |-> 0]

\* str::parse::<u64>: an optional "+", then one or more digits
ParseU64(s) ==
    LET body == IF s # <<>> /\ s[1] = "+" THEN Tail(s) ELSE s
    IN  IF AllDigits(body) THEN [ok |-> TRUE, val |-> DigitsValue(body)]
        ELSE ParseError

\* str::parse::<i64>: an optional "+" or "-", then one or more digits
ParseI64(s) ==
    LET signed == s # <<>> /\ s[1] \in {"+", "-"}
        body   == IF signed THEN Tail(s) ELSE s
    IN  IF ~AllDigits(body) THEN ParseError
        ELSE IF signed /\ s[1] = "-"
             THEN [ok |-> TRUE, val |-> 0 - DigitsValue(body)]
             ELSE [ok |-> TRUE, val |-> DigitsValue(body)]

HashWidth == 16

RECURSIVE HexDigits(_)
HexDigits(n) ==
    IF n < 16 THEN <<HexChar[n + 1]>>
    ELSE Append(HexDigits(n \div 16), HexChar[(n % 16) + 1])

\* format!("{:016x}", hash): lowercase hex, zero-padded on the left
FormatHash(n) ==
    LET d == HexDigits(n)
    IN  [i \in 1..(HashWidth - Len(d)) |-> "0"] \o d

-----------------------------------------------------------------------------
(* FileInfo, the change record                                             *)

\* a DateTime<Utc>: whole seconds since the epoch and the nanoseconds within
DateTime(secs, nanos) == [secs |-> secs, nanos |-> nanos]

FileInfoOf(size, hash, time_stamp) ==
    [size |-> size, hash |-> hash, time_stamp |-> time_stamp]

\* FileInfo::new with time_stamp = None: now, truncated to the second
FileInfoNew(size, hash, now) == FileInfoOf(size, hash, DateTime(now, 0))

\* impl PartialEq for FileInfo
FileInfoEq(a, b) == a.size = b.size /\ a.hash = b.hash

\* write_to_file with the hash written before the size
WriteToFile_HashFirst(info) ==
    << info.hash, NatToDecimal(info.size), IntToDecimal(info.time_stamp.secs) >>

\* FileInfo::write_to_file: size, hash, epoch seconds, one per line
WriteToFile(info) ==
    << NatToDecimal(info.size), info.hash, IntToDecimal(info.time_stamp.secs) >>

NoInfo == [ok |-> FALSE, info |-> FileInfoOf(0, <<>>, DateTime(0, 0))]

\* FileInfo::read_from_meta on the lines of a file; ok = FALSE is InvalidData
ReadFromMeta(lines) ==
    IF Len(lines) < 3 THEN NoInfo
    ELSE LET size == ParseU64(lines[1])
             ts   == ParseI64(lines[3])
         IN  IF size.ok /\ ts.ok
             THEN [ok |-> TRUE,
                   info |-> FileInfoOf(size.val, lines[2], DateTime(ts.val, 0))]
             ELSE NoInfo

-----------------------------------------------------------------------------
(* Files, names, paths and directory trees                                 *)

Name(stem, ext) == <<stem, ext>>

Extension(name) == name[2]

NoMembers == <<>>

TextFile(lines) == [zip |-> FALSE, text |-> lines, members |-> NoMembers]

ZipFile(members) == [zip |-> TRUE, text |-> <<>>, members |-> members]

Parent(path) == SubSeq(path, 1, Len(path) - 1)

FileName(path) == path[Len(path)]

Join(dir, rel) == dir \o rel

\* Path::starts_with: whole-component prefix
StartsWith(path, prefix) ==
    Len(prefix) <= Len(path) /\ SubSeq(path, 1, Len(prefix)) = prefix

\* Path::with_extension: the extension of the last component is replaced
WithExtension(path, ext) ==
    IF path = <<>> THEN path
    ELSE Append(Parent(path), Name(FileName(path)[1], ext))

Prefixes(path) == {SubSeq(path, 1, n) : n \in 0..Len(path)}

EmptyTree == [dirs |-> {<<>>}, files |-> <<>>]

IsFile(fs, path) == path \in DOMAIN fs.files

IsDir(fs, path) == path \in fs.dirs

\* Path::exists; the empty PathBuf names nothing
Exists(fs, path) == path # <<>> /\ (IsFile(fs, path) \/ IsDir(fs, path))

\* fs::create_dir_all
CreateDirAll(fs, dir) == [fs EXCEPT !.dirs = @ \cup Prefixes(dir)]

\* File::create + write_all, fs::write: the file is created or replaced
PutFile(fs, path, file) ==
    [fs EXCEPT !.files = [q \in (DOMAIN @) \cup {path} |->
                              IF q = path THEN file ELSE @[q]]]

\* fs::remove_file
RemoveFile(fs, path) ==
    [fs EXCEPT !.files = [q \in (DOMAIN @) \ {path} |-> @[q]]]

\* fs::remove_dir_all
RemoveDirAll(fs, dir) ==
    [dirs  |-> {d \in fs.dirs : ~StartsWith(d, dir)},
     files |-> [q \in {f \in DOMAIN fs.files : ~StartsWith(f, dir)} |-> fs.files[q]]]

\* fs::read_dir: the entries directly inside dir
ReadDir(fs, dir) ==
    {p \in (fs.dirs \cup DOMAIN fs.files) : p # <<>> /\ Parent(p) = dir}

\* the directories WalkDir::new(root) yields: root and everything below it
DirsUnder(fs, root) == {d \in fs.dirs : StartsWith(d, root)}

\* metadata().len(): every line ends in a newline
RECURSIVE TextSize(_)
TextSize(lines) ==
    IF lines = <<>> THEN 0 ELSE Len(Head(lines)) + 1 + TextSize(Tail(lines))

-----------------------------------------------------------------------------
(* Configuration (the crate's config module)                               *)

\* IGNORE_DIRS: paths below SRC_DIR, here relative to it
IgnoreDirs == { <<Name("ign", "")>> }

\* COMPRESS_FILE_NAME: the per-directory metadata archive
CompressFileName == Name("meta", "zip")

\* CHECKPOINT_NAME: the pointer file at the backup root
CheckpointName == Name("latest_checkpoint", "")

\* TEMP_EXT: the staging directory at the backup root
TempExt == Name("temp", "")

RemoveTempImmediately == TRUE

MetaExt == "meta"

-----------------------------------------------------------------------------
(* Content hash                                                            *)

Alphabet == HexChar \o <<"h", "l", "o", "w", "r", "!", "-", "+">>

CharCode(c) ==
    IF \E i \in 1..Len(Alphabet) : Alphabet[i] = c
    THEN CHOOSE i \in 1..Len(Alphabet) : Alphabet[i] = c
    ELSE Len(Alphabet) + 1

NewlineCode == Len(Alphabet) + 2

\* the digest keeps HashModulus values where XXH3 keeps 2^64
HashModulus == 65521

RECURSIVE HashLine(_, _)
HashLine(h, line) ==
    IF line = <<>> THEN (h * 31 + NewlineCode) % HashModulus
    ELSE HashLine((h * 31 + CharCode(Head(line))) % HashModulus, Tail(line))

RECURSIVE HashText(_, _)
HashText(h, lines) ==
    IF lines = <<>> THEN h ELSE HashText(HashLine(h, Head(lines)), Tail(lines))

\* compute_xxhash: a digest of the bytes alone, rendered as 16 hex digits
ComputeXxhash(file) == FormatHash(HashText(0, file.text))

\* FileInfo::from_path
FromPath(file, now) == FileInfoNew(TextSize(file.text), ComputeXxhash(file), now)

-----------------------------------------------------------------------------
(* Metadata archives: fold and unfold (zip_handler.rs)                     *)

ZipPath(dir) == Append(dir, CompressFileName)

IsMetaName(name) == Extension(name) = MetaExt

\* the entries compress_process collects: extension == "meta"
MetaFiles(fs, dir) == {p \in ReadDir(fs, dir) : IsMetaName(FileName(p))}

RECURSIVE RemoveFiles(_, _)
\* delete_meta_files
RemoveFiles(fs, paths) ==
    IF paths = {} THEN fs
    ELSE LET p == CHOOSE q \in paths : TRUE
         IN  RemoveFiles(RemoveFile(fs, p), paths \ {p})

\* create_zip that starts every member but never writes its content
CreateZip_NoContent(fs, dir, meta_files) ==
    PutFile(fs, ZipPath(dir),
            ZipFile([n \in {FileName(p) : p \in meta_files} |-> TextFile(<<>>)]))

\* create_zip: one member per sidecar, named by its bare file name
CreateZip(fs, dir, meta_files) ==
    PutFile(fs, ZipPath(dir),
            ZipFile([n \in {FileName(p) : p \in meta_files} |->
                         fs.files[Append(dir, n)]]))

\* compress_process that packs the sidecars and leaves them in the directory
CompressProcess_KeepsSidecars(fs, dir) ==
    LET meta_files == MetaFiles(fs, dir)
    IN  IF meta_files = {} THEN [ok |-> TRUE, fs |-> fs]
        ELSE [ok |-> TRUE, fs |-> CreateZip(fs, dir, meta_files)]

\* compress_process (fold): [ok, fs]
CompressProcess(fs, dir) ==
    LET meta_files == MetaFiles(fs, dir)
    IN  IF meta_files = {} THEN [ok |-> TRUE, fs |-> fs]
        ELSE IF \E p \in meta_files : IsDir(fs, p)
             \* fs::read of a directory fails, the archive is left unfinished
             THEN [ok |-> FALSE, fs |-> PutFile(fs, ZipPath(dir), TextFile(<<>>))]
             ELSE [ok |-> TRUE,
                   fs |-> RemoveFiles(CreateZip(fs, dir, meta_files), meta_files)]

RECURSIVE PutMembers(_, _, _, _)
PutMembers(fs, dir, members, names) ==
    IF names = {} THEN fs
    ELSE LET n == CHOOSE m \in names : TRUE
         IN  PutMembers(PutFile(fs, Append(dir, n), members[n]), dir, members,
                        names \ {n})

\* extract_zip that writes every sidecar of the archive over the one in place
ExtractZip_Overwrites(fs, dir, delete_zip) ==
    LET zip_path == ZipPath(dir)
    IN  IF ~Exists(fs, zip_path) THEN [ok |-> TRUE, fs |-> fs]
        ELSE LET members == fs.files[zip_path].members
                 wanted  == {n \in DOMAIN members : IsMetaName(n)}
                 out     == PutMembers(fs, dir, members, wanted)
             IN  [ok |-> TRUE,
                  fs |-> IF delete_zip THEN RemoveFile(out, zip_path) ELSE out]

\* extract_zip (unfold): [ok, fs]
ExtractZip(fs, dir, delete_zip) ==
    LET zip_path == ZipPath(dir)
    IN  IF ~Exists(fs, zip_path) THEN [ok |-> TRUE, fs |-> fs]
        ELSE IF ~IsFile(fs, zip_path) \/ ~fs.files[zip_path].zip
             THEN [ok |-> FALSE, fs |-> fs]
             ELSE LET members == fs.files[zip_path].members
                      wanted  == {n \in DOMAIN members :
                                      /\ IsMetaName(n)
                                      /\ ~Exists(fs, Append(dir, n))}
                      out     == PutMembers(fs, dir, members, wanted)
                  IN  [ok |-> TRUE,
                       fs |-> IF delete_zip THEN RemoveFile(out, zip_path) ELSE out]

RECURSIVE CompressDirs(_, _)
CompressDirs(fs, dirs) ==
    IF dirs = {} THEN [ok |-> TRUE, fs |-> fs]
    ELSE LET d == CHOOSE e \in dirs : TRUE
             r == CompressProcess(fs, d)
         IN  IF r.ok THEN CompressDirs(r.fs, dirs \ {d}) ELSE r

\* compress_dir (fold_tree): every directory WalkDir yields, none when root is absent
CompressDir(fs, root) == CompressDirs(fs, DirsUnder(fs, root))

RECURSIVE ExtractDirs(_, _)
ExtractDirs(fs, dirs) ==
    IF dirs = {} THEN [ok |-> TRUE, fs |-> fs]
    ELSE LET d == CHOOSE e \in dirs : TRUE
             r == ExtractZip(fs, d, TRUE)
         IN  IF r.ok THEN ExtractDirs(r.fs, dirs \ {d}) ELSE r

\* extract_dir (unfold_tree)
ExtractDir(fs, root) == ExtractDirs(fs, DirsUnder(fs, root))

-----------------------------------------------------------------------------
(* The tree diff walker (backup_utils.rs)                                  *)

NoLast == [some |-> FALSE, path |-> <<>>]

SomeLast(path) == [some |-> TRUE, path |-> path]

\* dealing_with_file that copies only what differs from a record it has read:
\* a file without a prior record gets its sidecar and no copy
DealingWithFile_SkipsNew(sfs, bfs, path, last_checkpoint_meta, new_checkpoint_dir, now, fault) ==
    LET lastPath == last_checkpoint_meta.path
        hasLast  == last_checkpoint_meta.some /\ Exists(bfs, lastPath)
        last     == IF hasLast /\ IsFile(bfs, lastPath) /\ ~bfs.files[lastPath].zip
                    THEN ReadFromMeta(bfs.files[lastPath].text)
                    ELSE NoInfo
        current  == FromPath(sfs.files[path], now)
        new_meta == WithExtension(new_checkpoint_dir, MetaExt)
        fs1      == CreateDirAll(bfs, Parent(new_checkpoint_dir))
        fs2      == PutFile(fs1, new_meta, TextFile(WriteToFile(current)))
    IN  IF hasLast /\ ~last.ok THEN [ok |-> FALSE, fs |-> bfs]
        ELSE IF fault = "capture" THEN [ok |-> FALSE, fs |-> bfs]
        ELSE IF IsDir(fs1, new_meta) THEN [ok |-> FALSE, fs |-> fs1]
        ELSE IF ~hasLast \/ FileInfoEq(last.info, current) THEN [ok |-> TRUE, fs |-> fs2]
        ELSE IF fault = "copy" THEN [ok |-> FALSE, fs |-> fs2]
        ELSE [ok |-> TRUE, fs |-> PutFile(fs2, new_checkpoint_dir, sfs.files[path])]

\* dealing_with_file: [ok, fs], fs the backup tree it leaves.
\* fault names the call an I/O failure is delivered to: "capture", "copy" or "none"
DealingWithFile(sfs, bfs, path, last_checkpoint_meta, new_checkpoint_dir, now, fault) ==
    LET lastPath == last_checkpoint_meta.path
        hasLast  == last_checkpoint_meta.some /\ Exists(bfs, lastPath)
        last     == IF hasLast /\ IsFile(bfs, lastPath) /\ ~bfs.files[lastPath].zip
                    THEN ReadFromMeta(bfs.files[lastPath].text)
                    ELSE NoInfo
        current  == FromPath(sfs.files[path], now)
        new_meta == WithExtension(new_checkpoint_dir, MetaExt)
        fs1      == CreateDirAll(bfs, Parent(new_checkpoint_dir))
        fs2      == PutFile(fs1, new_meta, TextFile(WriteToFile(current)))
    IN  IF hasLast /\ ~last.ok THEN [ok |-> FALSE, fs |-> bfs]
        ELSE IF fault = "capture" THEN [ok |-> FALSE, fs |-> bfs]
        ELSE IF IsDir(fs1, new_meta) THEN [ok |-> FALSE, fs |-> fs1]
        ELSE IF hasLast /\ FileInfoEq(last.info, current) THEN [ok |-> TRUE, fs |-> fs2]
        ELSE IF fault = "copy" THEN [ok |-> FALSE, fs |-> fs2]
        ELSE [ok |-> TRUE, fs |-> PutFile(fs2, new_checkpoint_dir, sfs.files[path])]

\* the ignore test made on the file name alone, which no directory path passes
Ignored_NameOnly(path) == \E ignore \in IgnoreDirs : <<FileName(path)>> = Parent(ignore)

\* IGNORE_DIRS.iter().any(|ignore| path.starts_with(ignore))
Ignored(path) == \E ignore \in IgnoreDirs : StartsWith(path, ignore)

\* the sidecar of rel in the staged previous checkpoint, None without one
LastCheckpointMeta(last_checkpoint, rel) ==
    IF last_checkpoint # <<>>
    THEN SomeLast(WithExtension(Join(last_checkpoint, rel), MetaExt))
    ELSE NoLast

-----------------------------------------------------------------------------
(* The checkpoint chain driver (main.rs)                                   *)

Stamps == << "2026-11-03_10-00_01", "2026-11-03_10-00_02", "2026-11-03_10-00_03",
             "2026-11-03_10-00_04", "2026-11-03_10-00_05", "2026-11-03_10-00_06" >>

\* new_checkpoint_name: the clock, to the second
NewCheckpointName(now) == Name(Stamps[now], "")

PointerPath == <<CheckpointName>>

\* the trimmed content of the pointer file, "" when missing or empty
PointerContent(fs) ==
    IF IsFile(fs, PointerPath) /\ fs.files[PointerPath].text # <<>>
       /\ fs.files[PointerPath].text[1] # <<>>
    THEN fs.files[PointerPath].text[1][1]
    ELSE ""

\* read_last_checkpoint: the checkpoint the pointer names, the empty path for none
ReadLastCheckpoint(fs) ==
    IF PointerContent(fs) = "" THEN <<>> ELSE <<Name(PointerContent(fs), "")>>

RECURSIVE CopyFiles(_, _, _, _)
CopyFiles(fs, from, to, paths) ==
    IF paths = {} THEN fs
    ELSE LET p == CHOOSE q \in paths : TRUE
             rel == SubSeq(p, Len(from) + 1, Len(p))
         IN  CopyFiles(PutFile(fs, Join(to, rel), fs.files[p]), from, to, paths \ {p})

\* copy_dir_recursive: the directories of src, and of its files only the archives
CopyDirRecursive(fs, from, to) ==
    LET dirs   == {Join(to, SubSeq(d, Len(from) + 1, Len(d))) : d \in DirsUnder(fs, from)}
        zips   == {p \in DOMAIN fs.files :
                       StartsWith(p, from) /\ FileName(p) = CompressFileName}
        mirror == [fs EXCEPT !.dirs = @ \cup Prefixes(to) \cup dirs]
    IN  CopyFiles(mirror, from, to, zips)

TempDir == <<TempExt>>

-----------------------------------------------------------------------------
(* Bounds and the environment's inputs                                     *)

MaxRuns == 2      \* backup runs that pass the confirmation prompt

MaxEdits == 3     \* changes made to the source tree

MaxClock == 2     \* seconds the clock can show

MaxFaults == 1    \* I/O failures delivered

Hello == TextFile(<< <<"h", "e", "l", "l", "o">> >>)

World == TextFile(<< <<"w", "o", "r", "l", "d">> >>)

SrcFilePaths ==
    { <<Name("a", "txt")>>, <<Name("a", "md")>>, <<Name("a", "meta")>>,
      <<Name("sub", ""), Name("b", "txt")>>,
      <<Name("ign", ""), Name("c", "txt")>> }

\* the bytes the environment writes to a source file
SrcContents(path) == IF path = <<Name("a", "txt")>> THEN {Hello, World} ELSE {Hello}

SrcDirPaths == { <<Name("sub", "")>>, <<Name("ign", "")>> }

RtOff == [stage |-> "off", rec |-> FileInfoOf(0, <<>>, DateTime(0, 0)),
          bytes |-> <<>>, back |-> NoInfo]

FdOff == [stage |-> "off", before |-> EmptyTree, now |-> EmptyTree, ok |-> TRUE]

NoRun == [last |-> <<>>, name |-> Name("", ""), extracted |-> <<>>, walkOk |-> TRUE,
          trail |-> <<>>]

-----------------------------------------------------------------------------
(* Actions                                                                 *)

Init ==
    /\ src = EmptyTree
    /\ bak = EmptyTree
    /\ clock = 1
    /\ pc = "idle"
    /\ run = NoRun
    /\ todo = <<>>
    /\ faults = 0
    /\ hist = [log |-> <<>>, edits |-> 0]
    /\ rt = RtOff
    /\ fd = FdOff

NewCheckpoint == <<run.name>>

\* the subtree of fs at dir, nothing when dir is no directory of fs
Subtree(fs, dir) ==
    IF dir = <<>> \/ ~IsDir(fs, dir) THEN EmptyTree
    ELSE [dirs  |-> {d \in fs.dirs : StartsWith(d, dir)},
          files |-> [q \in {r \in DOMAIN fs.files : StartsWith(r, dir)} |-> fs.files[q]]]

\* the run has finished one more step of backup()
Done(step) == [run EXCEPT !.trail = Append(@, step)]

\* the last entry of the log gets the outcome of the run that ends
Logged(outcome) ==
    [hist EXCEPT !.log[Len(hist.log)].outcome = outcome,
                 !.log[Len(hist.log)].walkOk = run.walkOk,
                 !.log[Len(hist.log)].trail = run.trail]

\* the environment, between runs ---------------------------------------------

Tick ==
    /\ pc = "idle" /\ clock < MaxClock
    /\ clock' = clock + 1
    /\ UNCHANGED <<src, bak, pc, run, todo, faults, hist, rt, fd>>

EditWrite ==
    /\ pc = "idle" /\ hist.edits < MaxEdits
    /\ \E p \in SrcFilePaths : \E c \in SrcContents(p) :
          /\ ~(IsFile(src, p) /\ src.files[p] = c)
          /\ src' = PutFile(CreateDirAll(src, Parent(p)), p, c)
    /\ hist' = [hist EXCEPT !.edits = @ + 1]
    /\ UNCHANGED <<bak, clock, pc, run, todo, faults, rt, fd>>

EditRemove ==
    /\ pc = "idle" /\ hist.edits < MaxEdits
    /\ \E p \in DOMAIN src.files : src' = RemoveFile(src, p)
    /\ hist' = [hist EXCEPT !.edits = @ + 1]
    /\ UNCHANGED <<bak, clock, pc, run, todo, faults, rt, fd>>

EditMkdir ==
    /\ pc = "idle" /\ hist.edits < MaxEdits
    /\ \E d \in SrcDirPaths : ~IsDir(src, d) /\ src' = CreateDirAll(src, d)
    /\ hist' = [hist EXCEPT !.edits = @ + 1]
    /\ UNCHANGED <<bak, clock, pc, run, todo, faults, rt, fd>>

EditRmdir ==
    /\ pc = "idle" /\ hist.edits < MaxEdits
    /\ \E d \in SrcDirPaths : IsDir(src, d) /\ src' = RemoveDirAll(src, d)
    /\ hist' = [hist EXCEPT !.edits = @ + 1]
    /\ UNCHANGED <<bak, clock, pc, run, todo, faults, rt, fd>>

\* backup(), main.rs:67-119 ----------------------------------------------------

\* lines 68-87, the prompt answered "y"
Begin ==
    /\ pc = "idle" /\ Len(hist.log) < MaxRuns
    /\ run' = [last |-> ReadLastCheckpoint(bak), name |-> NewCheckpointName(clock),
               extracted |-> <<>>, walkOk |-> TRUE, trail |-> <<>>]
    /\ hist' = [hist EXCEPT !.log = Append(@,
                   [src |-> src, name |-> NewCheckpointName(clock),
                    pointer |-> PointerContent(bak), outcome |-> "running",
                    walkOk |-> TRUE, trail |-> <<>>,
                    before |-> Subtree(bak, ReadLastCheckpoint(bak))])]
    /\ pc' = "stage"
    /\ UNCHANGED <<src, bak, clock, todo, faults, rt, fd>>

\* lines 68-87, the prompt answered anything else: "Backup cancelled."
Cancel ==
    /\ pc = "idle" /\ Len(hist.log) < MaxRuns
    /\ hist' = [hist EXCEPT !.log = Append(@,
                   [src |-> src, name |-> NewCheckpointName(clock),
                    pointer |-> PointerContent(bak), outcome |-> "cancelled",
                    walkOk |-> TRUE, trail |-> <<>>,
                    before |-> Subtree(bak, ReadLastCheckpoint(bak))])]
    /\ UNCHANGED <<src, bak, clock, pc, run, todo, faults, rt, fd>>

HasPrior == Exists(bak, run.last) /\ IsDir(bak, run.last)

\* the staging directory created without the old one being removed
StagingReady_KeepsOld == CreateDirAll(bak, TempDir)

\* the staging directory emptied and created, lines 92-96
StagingReady ==
    CreateDirAll(IF Exists(bak, TempDir) THEN RemoveDirAll(bak, TempDir) ELSE bak,
                 TempDir)

\* lines 90-100
Stage ==
    /\ pc = "stage"
    /\ IF HasPrior
       THEN LET r == ExtractDir(CopyDirRecursive(StagingReady, run.last, TempDir), TempDir)
            IN  /\ bak' = r.fs
                /\ IF r.ok
                   THEN /\ run' = [Done("stage") EXCEPT !.extracted = TempDir]
                        /\ pc' = "walk"
                        /\ hist' = hist
                   ELSE /\ run' = NoRun
                        /\ pc' = "idle"
                        /\ hist' = Logged("failed")
       ELSE /\ pc' = "walk"
            /\ UNCHANGED <<bak, run, hist>>
    /\ UNCHANGED <<src, clock, todo, faults, rt, fd>>

\* copy_dir_recursive fails: backup() returns the error
StageFault ==
    /\ pc = "stage" /\ HasPrior /\ faults < MaxFaults
    /\ bak' = StagingReady
    /\ run' = NoRun
    /\ pc' = "idle"
    /\ hist' = Logged("failed")
    /\ faults' = faults + 1
    /\ UNCHANGED <<src, clock, todo, rt, fd>>

\* traverse_backup(SRC_DIR, ..), line 155: the entries of the source root
TraverseBegin ==
    /\ pc = "walk"
    /\ todo' = <<ReadDir(src, <<>>)>>
    /\ pc' = "walking"
    /\ UNCHANGED <<src, bak, clock, run, faults, hist, rt, fd>>

\* lines 164-171: a directory entry
TraverseDir ==
    /\ pc = "walking" /\ todo # <<>>
    /\ \E path \in Head(todo) :
          /\ IsDir(src, path)
          /\ IF Ignored(path)
             THEN /\ todo' = <<Head(todo) \ {path}>> \o Tail(todo)
                  /\ bak' = bak
             ELSE /\ bak' = CreateDirAll(bak, Join(NewCheckpoint, path))
                  /\ todo' = <<ReadDir(src, path), Head(todo) \ {path}>> \o Tail(todo)
    /\ UNCHANGED <<src, clock, pc, run, faults, hist, rt, fd>>

\* what lines 172-183 do with one file entry, [ok, fs]
TraverseFileResult(path, fault) ==
    DealingWithFile(src, CreateDirAll(bak, Parent(Join(NewCheckpoint, path))), path,
                    LastCheckpointMeta(run.extracted, path),
                    Join(NewCheckpoint, path), clock, fault)

\* the walk ends with an error that takes the run past the fold
WalkAborted_SkipsFold ==
    /\ todo' = <<>>
    /\ run' = [Done("walk") EXCEPT !.walkOk = FALSE]
    /\ pc' = "cleanup"

\* an error that ends the walk of the directory it occurs in, and no more
WalkAborted_LeavesDirectory ==
    /\ todo' = Tail(todo)
    /\ run' = [(IF Tail(todo) = <<>> THEN Done("walk") ELSE run) EXCEPT !.walkOk = FALSE]
    /\ pc' = IF Tail(todo) = <<>> THEN "fold" ELSE "walking"

\* the walk ends with an error; line 102 drops it
WalkAborted ==
    /\ todo' = <<>>
    /\ run' = [Done("walk") EXCEPT !.walkOk = FALSE]
    /\ pc' = "fold"

\* lines 172-183: a file entry
TraverseFile ==
    /\ pc = "walking" /\ todo # <<>>
    /\ \E path \in Head(todo) :
          /\ IsFile(src, path)
          /\ LET r == TraverseFileResult(path, "none")
             IN  /\ bak' = r.fs
                 /\ IF r.ok
                    THEN /\ todo' = <<Head(todo) \ {path}>> \o Tail(todo)
                         /\ UNCHANGED <<run, pc>>
                    ELSE WalkAborted
    /\ UNCHANGED <<src, clock, faults, hist, rt, fd>>

\* a file entry whose hashing or copying fails
TraverseFileFault ==
    /\ pc = "walking" /\ todo # <<>> /\ faults < MaxFaults
    /\ \E path \in Head(todo), fault \in {"capture", "copy"} :
          /\ IsFile(src, path)
          /\ LET r == TraverseFileResult(path, fault)
             IN  /\ ~r.ok
                 /\ bak' = r.fs
                 /\ WalkAborted
    /\ faults' = faults + 1
    /\ UNCHANGED <<src, clock, hist, rt, fd>>

\* line 184-185: a directory's entries are exhausted, the call returns Ok
TraverseReturn ==
    /\ pc = "walking" /\ todo # <<>> /\ Head(todo) = {}
    /\ todo' = Tail(todo)
    /\ pc' = IF Tail(todo) = <<>> THEN "fold" ELSE "walking"
    /\ run' = IF Tail(todo) = <<>> THEN Done("walk") ELSE run
    /\ UNCHANGED <<src, bak, clock, faults, hist, rt, fd>>

\* line 105
Fold ==
    /\ pc = "fold"
    /\ LET r == CompressDir(bak, NewCheckpoint)
       IN  /\ bak' = r.fs
           /\ IF r.ok
              THEN /\ pc' = "cleanup"
                   /\ run' = Done("fold")
                   /\ hist' = hist
              ELSE /\ pc' = "idle"
                   /\ run' = NoRun
                   /\ hist' = Logged("failed")
    /\ UNCHANGED <<src, clock, todo, faults, rt, fd>>

\* compress_dir fails before it changes anything: backup() returns the error
FoldFault ==
    /\ pc = "fold" /\ faults < MaxFaults
    /\ pc' = "idle"
    /\ run' = NoRun
    /\ hist' = Logged("failed")
    /\ faults' = faults + 1
    /\ UNCHANGED <<src, bak, clock, todo, rt, fd>>

\* lines 108-110
Cleanup ==
    /\ pc = "cleanup"
    /\ IF Exists(bak, run.extracted) /\ RemoveTempImmediately
       THEN bak' = RemoveDirAll(bak, run.extracted) /\ run' = Done("unstage")
       ELSE UNCHANGED <<bak, run>>
    /\ pc' = "commit"
    /\ UNCHANGED <<src, clock, todo, faults, hist, rt, fd>>

\* lines 113-117
Commit ==
    /\ pc = "commit"
    /\ bak' = PutFile(bak, PointerPath, TextFile(<< <<run.name[1]>> >>))
    /\ pc' = "idle"
    /\ run' = NoRun
    /\ hist' = [Logged("committed") EXCEPT !.log[Len(hist.log)].trail = Append(@, "pointer")]
    /\ UNCHANGED <<src, clock, todo, faults, rt, fd>>

\* fs::write fails: backup() returns the error
CommitFault ==
    /\ pc = "commit" /\ faults < MaxFaults
    /\ pc' = "idle"
    /\ run' = NoRun
    /\ hist' = Logged("failed")
    /\ faults' = faults + 1
    /\ UNCHANGED <<src, bak, clock, todo, rt, fd>>

Next ==
    \/ Tick \/ EditWrite \/ EditRemove \/ EditMkdir \/ EditRmdir
    \/ Begin \/ Cancel \/ Stage \/ StageFault
    \/ TraverseBegin \/ TraverseDir \/ TraverseFile \/ TraverseFileFault
    \/ TraverseReturn
    \/ Fold \/ FoldFault \/ Cleanup \/ Commit \/ CommitFault

Spec == Init /\ [][Next]_vars

-----------------------------------------------------------------------------
(* What the claims speak of                                                *)

Runs == Len(hist.log)

LastRun == hist.log[Runs]

\* a run that wrote the pointer after a walk that returned Ok
Successful(e) == e.outcome = "committed" /\ e.walkOk

\* rel lies in, or is, a directory of the ignore list
UnderIgnoreDir(rel) == \E ignore \in IgnoreDirs : StartsWith(rel, ignore)

\* the regular files of a source tree that lie in no ignored directory
Tracked(tree) == {f \in DOMAIN tree.files : ~UnderIgnoreDir(f)}

\* the subdirectories of a source tree that match no ignore pattern
Mirrored(tree) == {d \in tree.dirs : d # <<>> /\ ~UnderIgnoreDir(d)}

CheckpointDir(name) == <<name>>

\* the member names of the metadata archive of dir, none without an archive
ArchiveNames(fs, dir) ==
    IF IsFile(fs, ZipPath(dir)) /\ fs.files[ZipPath(dir)].zip
    THEN DOMAIN fs.files[ZipPath(dir)].members
    ELSE {}

\* the archive member that holds the record of source file f
SidecarName(f) == Name(FileName(f)[1], MetaExt)

\* checkpoint cp holds a metadata entry for source file f
HasEntry(fs, cp, f) == SidecarName(f) \in ArchiveNames(fs, Join(cp, Parent(f)))

\* checkpoint cp holds a content copy of source file f with these bytes
HasCopy(fs, cp, f, bytes) ==
    IsFile(fs, Join(cp, f)) /\ fs.files[Join(cp, f)] = bytes

-----------------------------------------------------------------------------
(* C1 .. C8: the driver and the walker                                     *)

\* C1: a run in which staging, the walk or the fold failed leaves the pointer
\* holding the value it had when the run began.
C1_PointerOnlyOnSuccess ==
    (pc = "idle" /\ Runs > 0 /\ (LastRun.outcome = "failed" \/ ~LastRun.walkOk))
        => PointerContent(bak) = LastRun.pointer

\* C2: between runs, a non-empty pointer names a checkpoint directory that exists,
\* mirrors every non-ignored source directory of the run that wrote it and holds
\* a metadata entry for every tracked file of that run.
C2_PointerNamesCompleteCheckpoint ==
    (pc = "idle" /\ PointerContent(bak) # "")
        => LET cp == CheckpointDir(Name(PointerContent(bak), ""))
               writers == {i \in 1..Runs : hist.log[i].outcome = "committed"}
               wrote == hist.log[CHOOSE i \in writers : \A j \in writers : j <= i]
           IN  /\ IsDir(bak, cp)
               /\ \A d \in Mirrored(wrote.src) : IsDir(bak, Join(cp, d))
               /\ \A f \in Tracked(wrote.src) : HasEntry(bak, cp, f)

\* C3: after a successful run every tracked source file has a metadata entry in
\* the new checkpoint, and no two tracked files share one entry: the archive of
\* a directory has at least as many members as the directory has tracked files.
C3_OneEntryPerFile ==
    (pc = "idle" /\ Runs > 0 /\ Successful(LastRun))
        => LET cp == CheckpointDir(LastRun.name)
               files == Tracked(LastRun.src)
           IN  /\ \A f \in files : HasEntry(bak, cp, f)
               /\ \A d \in {Parent(f) : f \in files} :
                    Cardinality(ArchiveNames(bak, Join(cp, d)))
                        >= Cardinality({f \in files : Parent(f) = d})

\* two successful runs in a row, the second one just finished
TwoRuns ==
    /\ pc = "idle" /\ Runs >= 2
    /\ Successful(hist.log[Runs - 1]) /\ Successful(LastRun)

\* C4: of two consecutive runs, the second copies every file whose bytes differ
\* from those it had at the first.
C4_ChangedFileCopied ==
    TwoRuns =>
        LET first == hist.log[Runs - 1]
        IN  \A f \in Tracked(first.src) \cap Tracked(LastRun.src) :
                first.src.files[f] # LastRun.src.files[f]
                    => HasCopy(bak, CheckpointDir(LastRun.name), f, LastRun.src.files[f])

\* C5: of two consecutive runs into two checkpoints, the second records every
\* file whose bytes are unchanged but puts no content file at its path.
C5_UnchangedFileNotCopied ==
    (TwoRuns /\ hist.log[Runs - 1].name # LastRun.name) =>
        LET first == hist.log[Runs - 1]
            cp == CheckpointDir(LastRun.name)
        IN  \A f \in Tracked(first.src) \cap Tracked(LastRun.src) :
                first.src.files[f] = LastRun.src.files[f]
                    => HasEntry(bak, cp, f) /\ ~IsFile(bak, Join(cp, f))

\* the walk has just handled file entry path and goes on
Handled(path) ==
    /\ pc = "walking" /\ todo # <<>> /\ path \in Head(todo) /\ IsFile(src, path)
    /\ pc' = "walking" /\ todo' = <<Head(todo) \ {path}>> \o Tail(todo)

\* path has no sidecar in the staged previous checkpoint, or there is none
NoPriorRecord(path) ==
    LET last == LastCheckpointMeta(run.extracted, path)
    IN  ~last.some \/ ~Exists(bak, last.path)

\* C6: the walk copies in full every file it handles that has no prior record.
C6_NewFileAlwaysCopied ==
    [][\A path \in SrcFilePaths :
          (Handled(path) /\ NoPriorRecord(path))
              => HasCopy(bak', NewCheckpoint, path, src.files[path])]_vars

\* a run with a staged previous checkpoint has copied a file that had no sidecar there
C6_Witness ==
    /\ pc = "walking" /\ run.extracted # <<>> /\ hist.log[1].name # run.name
    /\ \E path \in DOMAIN src.files :
          /\ path \notin Head(todo)
          /\ NoPriorRecord(path)
          /\ HasCopy(bak, NewCheckpoint, path, src.files[path])

\* the directories below checkpoint cp, relative to it
DirsIn(fs, cp) == {SubSeq(d, Len(cp) + 1, Len(d)) : d \in DirsUnder(fs, cp)} \ {<<>>}

\* C7: when the walk has returned Ok, the directories of the new checkpoint are
\* the mirror of the non-ignored directories of the source tree, no more, no fewer.
C7_DirectoriesMirrored ==
    (pc = "fold" /\ run.walkOk) => DirsIn(bak, NewCheckpoint) = Mirrored(src)

\* the entries of the backup root that are checkpoints
Checkpoints == {<<Name(Stamps[t], "")>> : t \in 1..Len(Stamps)}

\* C8: no checkpoint holds a directory, a content copy, a sidecar or an archived
\* record for an ignored source directory or for anything beneath it.
C8_IgnoredNeverMirrored ==
    \A cp \in Checkpoints :
        \A p \in bak.dirs \cup DOMAIN bak.files :
            (StartsWith(p, cp) /\ p # cp)
                => ~UnderIgnoreDir(SubSeq(p, Len(cp) + 1, Len(p)))

\* a committed run whose source tree had an ignored directory with a file in it
C8_Witness ==
    /\ pc = "idle" /\ Runs > 0 /\ Successful(LastRun)
    /\ \E f \in DOMAIN LastRun.src.files : UnderIgnoreDir(f)
    /\ \E f \in DOMAIN LastRun.src.files : ~UnderIgnoreDir(f)
    /\ IsDir(bak, CheckpointDir(LastRun.name))

-----------------------------------------------------------------------------
(* SpecRecord: a change record written and read back                       *)

RtSizes == {0, 6, 10, 4096}

RtHashes == {FormatHash(0), FormatHash(255), FormatHash(65520)}

RtSeconds == {0 - 86400, 0 - 1, 0, 1, 1762164000}

RtNanos == {0, 500}

RtRecords ==
    {FileInfoOf(size, hash, DateTime(secs, nanos)) :
        size \in RtSizes, hash \in RtHashes, secs \in RtSeconds, nanos \in RtNanos}

InitRecord ==
    /\ src = EmptyTree /\ bak = EmptyTree /\ clock = 1 /\ pc = "idle"
    /\ run = NoRun /\ todo = <<>> /\ faults = 0
    /\ hist = [log |-> <<>>, edits |-> 0]
    /\ fd = FdOff
    /\ \E r \in RtRecords : rt = [RtOff EXCEPT !.stage = "made", !.rec = r]

RtWrite ==
    /\ rt.stage = "made"
    /\ rt' = [rt EXCEPT !.stage = "written", !.bytes = WriteToFile(rt.rec)]
    /\ UNCHANGED <<src, bak, clock, pc, run, todo, faults, hist, fd>>

RtRead ==
    /\ rt.stage = "written"
    /\ rt' = [rt EXCEPT !.stage = "read", !.back = ReadFromMeta(rt.bytes)]
    /\ UNCHANGED <<src, bak, clock, pc, run, todo, faults, hist, fd>>

NextRecord == RtWrite \/ RtRead

SpecRecord == InitRecord /\ [][NextRecord]_vars

\* C10: a record written and read back is read without error and equals the
\* original: same size, same hash, same second; field for field when the
\* original carries no fraction of a second.
C10_RecordRoundTrip ==
    rt.stage = "read" =>
        /\ rt.back.ok
        /\ FileInfoEq(rt.back.info, rt.rec)
        /\ rt.back.info.size = rt.rec.size /\ rt.back.info.hash = rt.rec.hash
        /\ rt.back.info.time_stamp.secs = rt.rec.time_stamp.secs
        /\ (rt.rec.time_stamp.nanos = 0 => rt.back.info = rt.rec)

\* a multi-digit size and a negative timestamp have made the round trip
C10_Witness ==
    /\ rt.stage = "read" /\ rt.back.ok
    /\ rt.rec.size = 4096 /\ rt.rec.time_stamp.secs < 0
    /\ rt.back.info = rt.rec

-----------------------------------------------------------------------------
(* SpecFold: one directory unfolded, then folded                           *)

RecordA == TextFile(WriteToFile(FileInfoNew(6, FormatHash(63446), 1)))

RecordB == TextFile(WriteToFile(FileInfoNew(7, FormatHash(35952), 2)))

FdMemberNames == {Name("a", MetaExt), Name("b", MetaExt), Name("note", "txt")}

FdLooseNames == {Name("a", MetaExt), Name("b", MetaExt)}

\* every assignment of bytes to a set of names
FilesOver(names) == [names -> {RecordA, RecordB}]

\* the directories unfold and fold are tried on: loose sidecars, and an archive or none
FdDirectories ==
    LET loose == UNION {FilesOver(n) : n \in SUBSET FdLooseNames}
        packs == UNION {FilesOver(n) : n \in SUBSET FdMemberNames}
        bare(l) == [dirs |-> {<<>>},
                    files |-> [q \in {<<n>> : n \in DOMAIN l} |-> l[q[1]]]]
    IN  {bare(l) : l \in loose}
        \cup {PutFile(bare(l), ZipPath(<<>>), ZipFile(m)) : l \in loose, m \in packs}

InitFold ==
    /\ src = EmptyTree /\ bak = EmptyTree /\ clock = 1 /\ pc = "idle"
    /\ run = NoRun /\ todo = <<>> /\ faults = 0
    /\ hist = [log |-> <<>>, edits |-> 0]
    /\ rt = RtOff
    /\ \E d \in FdDirectories : fd = [FdOff EXCEPT !.stage = "start", !.before = d, !.now = d]

FdUnfold ==
    /\ fd.stage = "start"
    /\ LET r == ExtractZip(fd.now, <<>>, TRUE)
       IN  fd' = [fd EXCEPT !.stage = "unfolded", !.now = r.fs, !.ok = r.ok]
    /\ UNCHANGED <<src, bak, clock, pc, run, todo, faults, hist, rt>>

FdFold ==
    /\ fd.stage = "unfolded" /\ fd.ok
    /\ LET r == CompressProcess(fd.now, <<>>)
       IN  fd' = [fd EXCEPT !.stage = "folded", !.now = r.fs, !.ok = r.ok]
    /\ UNCHANGED <<src, bak, clock, pc, run, todo, faults, hist, rt>>

\* fold on the directory as it was found
FdFoldOnly ==
    /\ fd.stage = "start"
    /\ LET r == CompressProcess(fd.now, <<>>)
       IN  fd' = [fd EXCEPT !.stage = "foldedOnly", !.now = r.fs, !.ok = r.ok]
    /\ UNCHANGED <<src, bak, clock, pc, run, todo, faults, hist, rt>>

NextFold == FdUnfold \/ FdFold \/ FdFoldOnly

SpecFold == InitFold /\ [][NextFold]_vars

\* the archive of the directory: its members with their bytes
Archive(fs) == fs.files[ZipPath(<<>>)].members

HasArchive(fs) == IsFile(fs, ZipPath(<<>>)) /\ fs.files[ZipPath(<<>>)].zip

OnlySidecars(fs) == \A n \in DOMAIN Archive(fs) : Extension(n) = MetaExt

LooseSidecars(fs) == {p \in DOMAIN fs.files : Len(p) = 1 /\ Extension(p[1]) = MetaExt}

\* unfold, then fold, gave back the archive the directory had: members and bytes
Restored ==
    /\ fd.ok /\ HasArchive(fd.now)
    /\ DOMAIN Archive(fd.now) = DOMAIN Archive(fd.before)
    /\ \A n \in DOMAIN Archive(fd.before) : Archive(fd.now)[n] = Archive(fd.before)[n]

\* C9 as stated: for every directory whose archive members are all sidecars,
\* unfold then fold restores the archive.
C9_AsStated ==
    (fd.stage = "folded" /\ HasArchive(fd.before) /\ OnlySidecars(fd.before))
        => Restored

\* C9 as amended: for every directory whose archive has at least one member, all
\* of them sidecars, and whose loose sidecars are all members of the archive with
\* the archived bytes, unfold then fold restores the archive.
C9_UnfoldFoldRestores ==
    (/\ fd.stage = "folded" /\ HasArchive(fd.before) /\ OnlySidecars(fd.before)
     /\ DOMAIN Archive(fd.before) # {}
     /\ \A p \in LooseSidecars(fd.before) :
           /\ p[1] \in DOMAIN Archive(fd.before)
           /\ fd.before.files[p] = Archive(fd.before)[p[1]])
        => Restored

\* an archive of two different sidecars, with one of them also loose, restored
C9_Witness ==
    /\ fd.stage = "folded" /\ HasArchive(fd.before)
    /\ DOMAIN Archive(fd.before) = FdLooseNames
    /\ Archive(fd.before)[Name("a", MetaExt)] # Archive(fd.before)[Name("b", MetaExt)]
    /\ LooseSidecars(fd.before) = {<<Name("a", MetaExt)>>}
    /\ fd.before.files[<<Name("a", MetaExt)>>] = Archive(fd.before)[Name("a", MetaExt)]
    /\ Restored

-----------------------------------------------------------------------------
(* SpecTree: fold_tree and unfold_tree on a tree with an ignored directory  *)

\* the directories of the tree: the root, a plain one and one of the ignore list
TrDirPaths == { <<>>, <<Name("sub", "")>>, <<Name("ign", "")>> }

\* what a directory of the tree holds: nothing, a loose sidecar, an archive, or both
TrHoldings == {"none", "loose", "archive", "both"}

RECURSIVE TrFill(_, _, _)
TrFill(fs, holds, dirs) ==
    IF dirs = {} THEN fs
    ELSE LET d == CHOOSE e \in dirs : TRUE
             sidecar == Append(d, Name("a", MetaExt))
             packed == ZipFile([n \in {Name("a", MetaExt)} |-> RecordA])
             fs1 == CreateDirAll(fs, d)
             fs2 == IF holds[d] \in {"loose", "both"}
                    THEN PutFile(fs1, sidecar, RecordB) ELSE fs1
             fs3 == IF holds[d] \in {"archive", "both"}
                    THEN PutFile(fs2, ZipPath(d), packed) ELSE fs2
         IN  TrFill(fs3, holds, dirs \ {d})

TrTrees == {TrFill(EmptyTree, holds, TrDirPaths) : holds \in [TrDirPaths -> TrHoldings]}

InitTree ==
    /\ src = EmptyTree /\ bak = EmptyTree /\ clock = 1 /\ pc = "idle"
    /\ run = NoRun /\ todo = <<>> /\ faults = 0
    /\ hist = [log |-> <<>>, edits |-> 0]
    /\ rt = RtOff
    /\ \E t \in TrTrees : fd = [FdOff EXCEPT !.stage = "tree", !.before = t, !.now = t]

\* compress_dir(root)
TrFoldTree ==
    /\ fd.stage = "tree"
    /\ LET r == CompressDir(fd.now, <<>>)
       IN  fd' = [fd EXCEPT !.stage = "treeFolded", !.now = r.fs, !.ok = r.ok]
    /\ UNCHANGED <<src, bak, clock, pc, run, todo, faults, hist, rt>>

\* extract_dir(root)
TrUnfoldTree ==
    /\ fd.stage = "tree"
    /\ LET r == ExtractDir(fd.now, <<>>)
       IN  fd' = [fd EXCEPT !.stage = "treeUnfolded", !.now = r.fs, !.ok = r.ok]
    /\ UNCHANGED <<src, bak, clock, pc, run, todo, faults, hist, rt>>

NextTree == TrFoldTree \/ TrUnfoldTree

SpecTree == InitTree /\ [][NextTree]_vars

\* the files of a tree that lie in an ignored directory, with their bytes
InIgnored(fs) == [p \in {q \in DOMAIN fs.files : UnderIgnoreDir(q)} |-> fs.files[p]]

\* C11: fold_tree and unfold_tree leave every sidecar and archive that lies in
\* an ignored directory as it was.
C11_IgnoredDirectoriesUntouched ==
    fd.stage \in {"treeFolded", "treeUnfolded"} => InIgnored(fd.now) = InIgnored(fd.before)

-----------------------------------------------------------------------------
(* C12 .. C19: the driver's steps, the checkpoints and the chain            *)

\* the steps every run has finished so far, the run under way included
Trails ==
    {hist.log[i].trail : i \in 1..Runs} \cup {run.trail}

\* the place of a step in the order the claim gives
RankStated(step) ==
    CASE step = "stage" -> 1 [] step = "walk" -> 2 [] step = "fold" -> 3
      [] step = "pointer" -> 4 [] step = "unstage" -> 5

\* the place of a step in the order of main.rs:89-115
RankCoded(step) ==
    CASE step = "stage" -> 1 [] step = "walk" -> 2 [] step = "fold" -> 3
      [] step = "unstage" -> 4 [] step = "pointer" -> 5

\* what both orders share: nothing before the walk but staging, the fold after
\* the walk, the pointer after the fold, the staging copy deleted after the walk
StepsComplete(trail) ==
    LET done == {trail[i] : i \in 1..Len(trail)}
    IN  /\ "fold" \in done => "walk" \in done
        /\ "pointer" \in done => "fold" \in done
        /\ "unstage" \in done => ({"stage", "walk", "fold"} \subseteq done)

\* C12 as stated: the steps of every run come in the order stage, walk, fold,
\* pointer write, deletion of the staging copy; staging happens only with a
\* prior checkpoint.
C12_AsStated ==
    /\ \A trail \in Trails :
          /\ StepsComplete(trail)
          /\ \A i, j \in 1..Len(trail) :
                i < j => RankStated(trail[i]) < RankStated(trail[j])
    /\ \A i \in 1..Runs : hist.log[i].trail # <<>> /\ hist.log[i].trail[1] = "stage"
                              => hist.log[i].pointer # ""

\* C12 as amended: the steps of every run come in the order stage, walk, fold,
\* deletion of the staging copy, pointer write; staging happens only with a
\* prior checkpoint.
C12_StepsInOrder ==
    /\ \A trail \in Trails :
          /\ StepsComplete(trail)
          /\ \A i, j \in 1..Len(trail) :
                i < j => RankCoded(trail[i]) < RankCoded(trail[j])
    /\ \A i \in 1..Runs : hist.log[i].trail # <<>> /\ hist.log[i].trail[1] = "stage"
                              => hist.log[i].pointer # ""

\* a run with a prior checkpoint has gone through all five steps
C12_Witness ==
    /\ pc = "idle" /\ Runs = 2 /\ LastRun.outcome = "committed"
    /\ LastRun.pointer # ""
    /\ LastRun.trail = <<"stage", "walk", "fold", "unstage", "pointer">>

\* C13: when a run has ended, the checkpoint directory the pointer named at its
\* start holds what it held then.
C13_CommittedCheckpointUntouched ==
    (pc = "idle" /\ Runs > 0 /\ LastRun.pointer # "")
        => Subtree(bak, CheckpointDir(Name(LastRun.pointer, ""))) = LastRun.before

-----------------------------------------------------------------------------
(* C14, C15: fold and unfold of one directory, under SpecFold               *)

\* C14: fold changes nothing in a directory without loose sidecars; in any
\* other directory a fold that succeeds leaves no loose sidecar, and an archive
\* whose members are exactly the sidecars that were loose, each under its bare
\* file name with the bytes it had.
C14_FoldPacksLooseSidecars ==
    fd.stage = "foldedOnly" =>
        IF LooseSidecars(fd.before) = {}
        THEN fd.ok /\ fd.now = fd.before
        ELSE fd.ok =>
               /\ LooseSidecars(fd.now) = {}
               /\ HasArchive(fd.now)
               /\ DOMAIN Archive(fd.now) = {p[1] : p \in LooseSidecars(fd.before)}
               /\ \A p \in LooseSidecars(fd.before) :
                     Archive(fd.now)[p[1]] = fd.before.files[p]

\* two loose sidecars folded in a directory whose old archive held other bytes
\* and a member that is no sidecar
C14_Witness ==
    /\ fd.stage = "foldedOnly" /\ fd.ok
    /\ LooseSidecars(fd.before) = {<<Name("a", MetaExt)>>, <<Name("b", MetaExt)>>}
    /\ fd.before.files[<<Name("a", MetaExt)>>] # fd.before.files[<<Name("b", MetaExt)>>]
    /\ HasArchive(fd.before)
    /\ DOMAIN Archive(fd.before) = {Name("a", MetaExt), Name("note", "txt")}
    /\ Archive(fd.before)[Name("a", MetaExt)] # fd.before.files[<<Name("a", MetaExt)>>]
    /\ DOMAIN Archive(fd.now) = FdLooseNames

\* C15: unfold changes nothing in a directory without an archive; in any other
\* directory an unfold that succeeds removes the archive, leaves every member
\* with the metadata extension as a loose sidecar, with the archived bytes unless
\* the sidecar was there before, which keeps its own, and extracts no other member.
C15_UnfoldExtractsSidecars ==
    fd.stage = "unfolded" =>
        IF ~Exists(fd.before, ZipPath(<<>>))
        THEN fd.ok /\ fd.now = fd.before
        ELSE fd.ok =>
               /\ ~Exists(fd.now, ZipPath(<<>>))
               /\ \A n \in DOMAIN Archive(fd.before) :
                     Extension(n) = MetaExt =>
                        /\ IsFile(fd.now, <<n>>)
                        /\ fd.now.files[<<n>>] =
                              IF IsFile(fd.before, <<n>>) THEN fd.before.files[<<n>>]
                              ELSE Archive(fd.before)[n]
               /\ \A p \in DOMAIN fd.before.files :
                     p # ZipPath(<<>>) => IsFile(fd.now, p) /\ fd.now.files[p] = fd.before.files[p]
               /\ \A p \in DOMAIN fd.now.files :
                     p \in DOMAIN fd.before.files
                        \/ (Extension(p[1]) = MetaExt /\ p[1] \in DOMAIN Archive(fd.before))

\* an archive with two sidecars and another member unfolded in a directory that
\* already had one of the sidecars, with other bytes
C15_Witness ==
    /\ fd.stage = "unfolded" /\ fd.ok
    /\ HasArchive(fd.before) /\ DOMAIN Archive(fd.before) = FdMemberNames
    /\ LooseSidecars(fd.before) = {<<Name("a", MetaExt)>>}
    /\ fd.before.files[<<Name("a", MetaExt)>>] # Archive(fd.before)[Name("a", MetaExt)]
    /\ fd.now.files[<<Name("a", MetaExt)>>] = fd.before.files[<<Name("a", MetaExt)>>]
    /\ fd.now.files[<<Name("b", MetaExt)>>] = Archive(fd.before)[Name("b", MetaExt)]
    /\ ~IsFile(fd.now, <<Name("note", "txt")>>)

-----------------------------------------------------------------------------
(* C16 .. C19: what a run leaves in the backup root, under Spec             *)

\* the loose sidecars below checkpoint cp
LooseSidecarsIn(fs, cp) ==
    {p \in DOMAIN fs.files : StartsWith(p, cp) /\ p # cp /\ Extension(FileName(p)) = MetaExt}

\* C16: the fold of a run's new checkpoint leaves every content copy the walk
\* has put there, with its bytes, and leaves no loose sidecar.
C16_FoldKeepsContentCopies ==
    [][(pc = "fold" /\ pc' = "cleanup") =>
          /\ \A f \in DOMAIN src.files :
                HasCopy(bak, NewCheckpoint, f, src.files[f])
                    => HasCopy(bak', NewCheckpoint, f, src.files[f])
          /\ LooseSidecarsIn(bak', NewCheckpoint) = {}]_vars

-----------------------------------------------------------------------------
(* SpecStage: the staging step on backup roots that earlier runs have left  *)

\* the checkpoint the pointer names
StLast == <<NewCheckpointName(1)>>

StSub == <<Name("sub", "")>>

\* the root archive of the checkpoint: none, or at least one sidecar
StRootArchives == UNION {FilesOver(n) : n \in (SUBSET FdLooseNames) \ {{}}}

\* the checkpoint with its content copy, its root archive and its subdirectory:
\* absent, empty or with an archive
StCheckpoint(root, copy, sub) ==
    LET fs0 == CreateDirAll(EmptyTree, StLast)
        fs1 == IF root = <<>> THEN fs0 ELSE PutFile(fs0, ZipPath(StLast), ZipFile(root))
        fs2 == IF copy THEN PutFile(fs1, Append(StLast, Name("a", "txt")), Hello) ELSE fs1
        fs3 == IF sub = "none" THEN fs2 ELSE CreateDirAll(fs2, Join(StLast, StSub))
        fs4 == IF sub = "archive"
               THEN PutFile(fs3, ZipPath(Join(StLast, StSub)),
                            ZipFile([n \in {Name("b", MetaExt)} |-> RecordA]))
               ELSE fs3
    IN  PutFile(fs4, PointerPath, TextFile(<< <<StLast[1][1]>> >>))

\* what a run that failed after staging has left in the staging directory
StLeftover(fs, left) ==
    LET fs1 == IF left = "none" THEN fs ELSE CreateDirAll(fs, TempDir)
        fs2 == IF left \in {"sidecar", "tree"}
               THEN PutFile(fs1, Append(TempDir, Name("a", MetaExt)), RecordB) ELSE fs1
    IN  IF left = "tree"
        THEN PutFile(CreateDirAll(fs2, Join(TempDir, <<Name("old", "")>>)),
                     Join(TempDir, <<Name("old", ""), Name("b", MetaExt)>>), RecordB)
        ELSE fs2

StRoots ==
    {StLeftover(StCheckpoint(root, copy, sub), left) :
        root \in StRootArchives \cup {<<>>}, copy \in BOOLEAN,
        sub \in {"none", "empty", "archive"},
        left \in {"none", "empty", "sidecar", "tree"}}

\* a run that has read the pointer and passed the prompt, main.rs:68-87
InitStage ==
    /\ src = EmptyTree /\ clock = 2 /\ todo = <<>> /\ faults = 0
    /\ rt = RtOff /\ fd = FdOff
    /\ pc = "stage"
    /\ run = [NoRun EXCEPT !.last = StLast, !.name = NewCheckpointName(2)]
    /\ \E root \in StRoots :
          /\ bak = root
          /\ hist = [log |-> << [src |-> src, name |-> NewCheckpointName(2),
                                pointer |-> PointerContent(root), outcome |-> "running",
                                walkOk |-> TRUE, trail |-> <<>>,
                                before |-> Subtree(root, StLast)] >>,
                     edits |-> 0, found |-> root]

NextStage == Stage \/ StageFault

SpecStage == InitStage /\ [][NextStage]_vars

\* path p of fs, relative to base
RelativeTo(p, base) == SubSeq(p, Len(base) + 1, Len(p))

\* C17: the staging copy the walker reads has the directories of the previous
\* checkpoint and, as its only files, the sidecars of that checkpoint's
\* archives with the archived bytes: no content copy, and nothing that was in
\* the staging directory before.
C17_BaselineFromArchivesOnly ==
    (pc = "walk" /\ run.extracted # <<>>) =>
        LET temp == run.extracted
            last == run.last
            staged == {p \in DOMAIN bak.files : StartsWith(p, temp)}
        IN  /\ {RelativeTo(d, temp) : d \in DirsUnder(bak, temp)}
                  = {RelativeTo(d, last) : d \in DirsUnder(bak, last)}
            /\ \A p \in staged :
                  LET dir == Join(last, Parent(RelativeTo(p, temp)))
                      n == FileName(p)
                  IN  /\ IsMetaName(n)
                      /\ n \in ArchiveNames(bak, dir)
                      /\ bak.files[p] = bak.files[ZipPath(dir)].members[n]
            /\ \A d \in DirsUnder(bak, last) :
                  \A n \in ArchiveNames(bak, d) :
                      IsMetaName(n) => IsFile(bak, Join(temp, Append(RelativeTo(d, last), n)))

\* staged: a checkpoint with a content copy and archives in two directories, on
\* a backup root whose staging directory held sidecars of an earlier run
C17_Witness ==
    /\ pc = "walk" /\ run.extracted = TempDir
    /\ IsFile(hist.found, Append(TempDir, Name("a", MetaExt)))
    /\ IsFile(hist.found, Join(TempDir, <<Name("old", ""), Name("b", MetaExt)>>))
    /\ IsFile(bak, Append(StLast, Name("a", "txt")))
    /\ ArchiveNames(bak, StLast) = FdLooseNames
    /\ bak.files[Append(TempDir, Name("a", MetaExt))] # hist.found.files[Append(TempDir, Name("a", MetaExt))]
    /\ IsFile(bak, Join(TempDir, <<Name("sub", ""), Name("b", MetaExt)>>))

\* path p holds in fs2 what it held in fs1
SameAt(fs1, fs2, p) ==
    /\ IsFile(fs1, p) = IsFile(fs2, p)
    /\ IsFile(fs1, p) => fs1.files[p] = fs2.files[p]

\* C18: the step in which a file of the walk fails ends the walk: nothing is
\* left to visit, the step has written at most the failing file's own sidecar
\* and its directory, the walk is not taken up again, and the walk goes on
\* past a file only when handling it has succeeded.
C18_WalkFailFast ==
    [][/\ (pc = "walking" /\ run.walkOk /\ ~run'.walkOk) =>
            /\ todo' = <<>> /\ pc' = "fold"
            /\ \E path \in Head(todo) :
                  /\ IsFile(src, path)
                  /\ \A p \in DOMAIN bak.files \cup DOMAIN bak'.files :
                        SameAt(bak, bak', p)
                            \/ p = WithExtension(Join(NewCheckpoint, path), MetaExt)
                  /\ bak'.dirs \ bak.dirs \subseteq Prefixes(Join(NewCheckpoint, Parent(path)))
       /\ ~run'.walkOk => pc' \notin {"walk", "walking"}
       /\ \A path \in SrcFilePaths :
             Handled(path) => TraverseFileResult(path, "none").ok]_vars

\* the walk of a fresh checkpoint has failed at a file of a subdirectory after
\* it had copied a file of the root; another file of the root, not yet visited,
\* has no copy
C18_Witness ==
    /\ pc = "fold" /\ ~run.walkOk /\ Runs = 1
    /\ HasCopy(bak, NewCheckpoint, <<Name("a", "md")>>, Hello)
    /\ IsFile(src, <<Name("sub", ""), Name("b", "txt")>>)
    /\ IsDir(bak, Join(NewCheckpoint, <<Name("sub", "")>>))
    /\ ~Exists(bak, Join(NewCheckpoint, <<Name("sub", ""), Name("b", "txt")>>))
    /\ IsFile(src, <<Name("a", "txt")>>)
    /\ ~Exists(bak, Join(NewCheckpoint, <<Name("a", "txt")>>))

\* the record checkpoint cp holds for source file f, read as read_from_meta reads it
EntryOf(fs, cp, f) ==
    ReadFromMeta(fs.files[ZipPath(Join(cp, Parent(f)))].members[SidecarName(f)].text)

\* C19: between runs, for every tracked file of the run that wrote the pointer
\* whose record the checkpoint it names holds, some checkpoint of the backup
\* root holds at the file's relative path a content copy with the recorded
\* size and hash.
C19_Reconstructable ==
    (pc = "idle" /\ PointerContent(bak) # "") =>
        LET cp == CheckpointDir(Name(PointerContent(bak), ""))
            writers == {i \in 1..Runs : hist.log[i].outcome = "committed"}
            wrote == hist.log[CHOOSE i \in writers : \A j \in writers : j <= i]
        IN  \A f \in Tracked(wrote.src) :
                (HasEntry(bak, cp, f) /\ EntryOf(bak, cp, f).ok) =>
                    \E c \in Checkpoints :
                        /\ IsFile(bak, Join(c, f))
                        /\ FileInfoEq(FromPath(bak.files[Join(c, f)], 0),
                                      EntryOf(bak, cp, f).info)

=============================================================================
